---- MODULE Spec2Model ----
(***************************************************************************)
(* A model of statemachine-rs: StateMachineBuilder (machine/builder.rs)    *)
(* and BasicStateMachine (machine/mod.rs).                                 *)
(*                                                                         *)
(* Spec        : one caller configures a builder, calls build() and then   *)
(*               calls the machine's operations one after the other.       *)
(* SpecBuilder : the setter calls on one builder, logged, then build().    *)
(* SpecFleet   : NumMachines machines, each built from its own builder.    *)
(* SpecConc    : NumCallers callers each run one consume() on one machine, *)
(*               the statements of consume() interleaved.                  *)
(* SpecShared  : NumCallers callers each make one call (any operation) on  *)
(*               one machine, every RefCell access a step.                 *)
(***************************************************************************)
EXTENDS Integers, FiniteSets, Sequences, TLC

\* ---------------------------------------------------------------- values

\* Option::None.
None == "None"

\* The panic of an `unreachable!()` arm of a transition closure.
Unreachable == "unreachable!()"

\* The panic of RefCell::borrow / RefCell::borrow_mut on a conflicting access.
BorrowPanic == "already borrowed"

\* enum Stations of the tests.
Stations ==
    {"Shibuya", "IkejiriOhashi", "Sangendyaya", "KomazawaDaigaku",
     "Sakurashinmachi", "Yoga", "FutakoTamagawa"}

\* enum Train of the tests.
Train == {"Local", "Express"}

\* The transition closure of test_consume, test_peek, test_reset, test_build.
StationTransition(station, train) ==
    CASE station = "Shibuya" /\ train = "Local" -> "IkejiriOhashi"
      [] station = "Shibuya" /\ train = "Express" -> "Sangendyaya"
      [] station = "IkejiriOhashi" /\ train = "Local" -> "Sangendyaya"
      [] station = "Sangendyaya" /\ train = "Local" -> "KomazawaDaigaku"
      [] station = "Sangendyaya" /\ train = "Express" -> "FutakoTamagawa"
      [] station = "KomazawaDaigaku" /\ train = "Local" -> "Sakurashinmachi"
      [] station = "Sakurashinmachi" /\ train = "Local" -> "Yoga"
      [] OTHER -> Unreachable

\* The transition closure of test_current_state and test_set.
ShibuyaTransition(station, train) ==
    CASE station = "Shibuya" /\ train = "Local" -> "IkejiriOhashi"
      [] OTHER -> Unreachable

\* The closures a caller may hand to the builder, by name.
Transitions == {"StationTransition", "ShibuyaTransition"}

\* (self.transition)(&state, input): the call of the stored closure.
Apply(transition, state, input) ==
    CASE transition = "StationTransition" -> StationTransition(state, input)
      [] transition = "ShibuyaTransition" -> ShibuyaTransition(state, input)

\* Whether the closure has an arm for (state, input).
Defined(transition, state, input) == Apply(transition, state, input) # Unreachable

\* ---------------------------------------------------------- StateWrapper

StateWrapper_new(state) == state

StateWrapper_get(wrapper) == wrapper

StateWrapper_set(wrapper, state) == state

\* --------------------------------------------------- StateMachineBuilder

\* StateMachineBuilder::default(), which start() returns.
Builder_start ==
    [initial_state |-> None, current_state |-> None, transition |-> None]

\* Mutant of initial_state(): a value already set is kept (first write wins).
Builder_initial_state_keeping_first(b, state) ==
    IF b.initial_state = None THEN [b EXCEPT !.initial_state = state] ELSE b

Builder_initial_state(b, state) == [b EXCEPT !.initial_state = state]

Builder_current_state(b, state) == [b EXCEPT !.current_state = state]

Builder_transition(b, next) == [b EXCEPT !.transition = next]

\* StateMachineError::MissingField(field), as build() constructs it.
MissingField(field) == [variant |-> "MissingField", field |-> field]

\* The placeholder for "no machine": the Err results carry none.
NoMachine ==
    [initial_state |-> None, current_state |-> None, transition |-> None,
     borrow |-> 0]

\* A BasicStateMachine value; borrow is the RefCell's flag of current_state
\* (n > 0: n shared borrows, -1: one mutable borrow, 0: unborrowed).
BasicStateMachine(initial_state, current_state, transition) ==
    [initial_state |-> initial_state, current_state |-> current_state,
     transition |-> transition, borrow |-> 0]

Ok(m) == [ok |-> TRUE, machine |-> m, err |-> MissingField(None)]

Err(e) == [ok |-> FALSE, machine |-> NoMachine, err |-> e]

\* Mutant of build(): the override is dropped, the machine starts at initial_state.
Builder_build_without_override(b) ==
    IF b.initial_state # None /\ b.transition # None
    THEN Ok(BasicStateMachine(b.initial_state,
                              StateWrapper_new(b.initial_state), b.transition))
    ELSE IF b.initial_state = None
         THEN Err(MissingField("initial_state"))
         ELSE Err(MissingField("transition"))

\* Mutant of build(): current_state is treated as a required field too.
Builder_build_requiring_current(b) ==
    IF b.initial_state # None /\ b.transition # None /\ b.current_state # None
    THEN Ok(BasicStateMachine(b.initial_state,
                              StateWrapper_new(b.current_state), b.transition))
    ELSE IF b.initial_state = None
         THEN Err(MissingField("initial_state"))
         ELSE IF b.transition = None
              THEN Err(MissingField("transition"))
              ELSE Err(MissingField("current_state"))

\* Mutant of build(): the two Err arms in the other order.
Builder_build_transition_first(b) ==
    IF b.initial_state # None /\ b.transition # None
    THEN Ok(BasicStateMachine(
                b.initial_state,
                IF b.current_state # None
                THEN StateWrapper_new(b.current_state)
                ELSE StateWrapper_new(b.initial_state),
                b.transition))
    ELSE IF b.transition = None
         THEN Err(MissingField("transition"))
         ELSE Err(MissingField("initial_state"))

\* Mutant of build(): a missing initial_state falls back to the override.
Builder_build_falling_back(b) ==
    IF b.initial_state # None /\ b.transition # None
    THEN Ok(BasicStateMachine(
                b.initial_state,
                IF b.current_state # None
                THEN StateWrapper_new(b.current_state)
                ELSE StateWrapper_new(b.initial_state),
                b.transition))
    ELSE IF b.initial_state = None /\ b.current_state # None /\ b.transition # None
         THEN Ok(BasicStateMachine(b.current_state,
                                   StateWrapper_new(b.current_state), b.transition))
         ELSE IF b.initial_state = None
              THEN Err(MissingField("initial_state"))
              ELSE Err(MissingField("transition"))

\* build(): the match on (self.initial_state, self.transition), arms in order.
Builder_build(b) ==
    IF b.initial_state # None /\ b.transition # None
    THEN Ok(BasicStateMachine(
                b.initial_state,
                IF b.current_state # None
                THEN StateWrapper_new(b.current_state)
                ELSE StateWrapper_new(b.initial_state),
                b.transition))
    ELSE IF b.initial_state = None
         THEN Err(MissingField("initial_state"))
         ELSE Err(MissingField("transition"))

\* ------------------------------------------------------ BasicStateMachine

\* What a call gives back: the machine after it, the value returned (or the
\* panic it ended with) and whether the transition closure was invoked.
Outcome(m, ret, called) == [machine |-> m, ret |-> ret, called |-> called]

\* The unit value `()` that set returns.
Unit == "()"

\* RefCell::borrow(): refused while a mutable borrow is held.
CanBorrow(m) == m.borrow >= 0

\* Mutant of CanBorrowMut: the mutable access is handed out unchecked.
CanBorrowMut_unchecked(m) == TRUE

\* RefCell::borrow_mut(): refused while any borrow is held.
CanBorrowMut(m) == m.borrow = 0

\* Mutant of current_state(): the query returns initial_state.
Machine_current_state_initial(m) == Outcome(m, m.initial_state, FALSE)

\* current_state(): self.current_state.borrow().get()
Machine_current_state(m) ==
    IF CanBorrow(m)
    THEN Outcome(m, StateWrapper_get(m.current_state), FALSE)
    ELSE Outcome(m, BorrowPanic, FALSE)

\* Mutant of set(): the new state is accepted only when the closure leads to it
\* from the current state, and the call panics otherwise.
Machine_set_through_rule(m, new_state) ==
    IF \E input \in Train : Apply(m.transition, m.current_state, input) = new_state
    THEN Outcome([m EXCEPT !.current_state = StateWrapper_set(@, new_state)],
                 Unit, TRUE)
    ELSE Outcome(m, Unreachable, TRUE)

\* set(): self.current_state.borrow_mut().set(new_state)
Machine_set(m, new_state) ==
    IF CanBorrowMut(m)
    THEN Outcome([m EXCEPT !.current_state = StateWrapper_set(@, new_state)],
                 Unit, FALSE)
    ELSE Outcome(m, BorrowPanic, FALSE)

\* Mutant of peek(): the result is stored, as consume() does.
Machine_peek_committing(m, input) ==
    LET new_state == Apply(m.transition, m.current_state, input)
    IN  IF new_state = Unreachable
        THEN Outcome(m, Unreachable, TRUE)
        ELSE Outcome([m EXCEPT !.current_state = StateWrapper_set(@, new_state)],
                     new_state, TRUE)

\* Mutant of peek(): the closure is given initial_state, not the current state.
Machine_peek_from_initial(m, input) ==
    Outcome(m, Apply(m.transition, m.initial_state, input), TRUE)

\* peek(): (self.transition)(&self.current_state.borrow().0, input)
Machine_peek(m, input) ==
    IF CanBorrow(m)
    THEN Outcome(m, Apply(m.transition, m.current_state, input), TRUE)
    ELSE Outcome(m, BorrowPanic, FALSE)

\* Mutant of reset(): initial_state is returned and nothing is stored.
Machine_reset_not_stored(m) == Outcome(m, m.initial_state, FALSE)

\* Mutant of reset(): initial_state and the current state are exchanged.
Machine_reset_swapping(m) ==
    Outcome([m EXCEPT !.current_state = m.initial_state,
                      !.initial_state = m.current_state],
            m.initial_state, FALSE)

\* reset(): borrow_mut().set(self.initial_state.clone()); self.current_state()
Machine_reset(m) ==
    IF CanBorrowMut(m)
    THEN LET stored == [m EXCEPT !.current_state =
                                     StateWrapper_set(@, m.initial_state)]
         IN  Outcome(stored, Machine_current_state(stored).ret, FALSE)
    ELSE Outcome(m, BorrowPanic, FALSE)

\* Mutant of consume(): the new state is returned and never stored.
Machine_consume_not_stored(m, input) ==
    Outcome(m, Apply(m.transition, m.current_state, input), TRUE)

\* Mutant of consume(): the new state is written to initial_state as well.
Machine_consume_moving_initial(m, input) ==
    LET new_state == Apply(m.transition, m.current_state, input)
    IN  IF new_state = Unreachable
        THEN Outcome(m, Unreachable, TRUE)
        ELSE Outcome([m EXCEPT !.current_state = new_state,
                               !.initial_state = new_state],
                     new_state, TRUE)

\* Mutant of consume(): the shared borrow is not released when the closure
\* panics.
Machine_consume_leaking_borrow(m, input) ==
    LET new_state == Apply(m.transition, m.current_state, input)
    IN  IF new_state = Unreachable
        THEN Outcome([m EXCEPT !.borrow = @ + 1], Unreachable, TRUE)
        ELSE LET stored == [m EXCEPT !.current_state =
                                         StateWrapper_set(@, new_state)]
             IN  Outcome(stored, Machine_current_state(stored).ret, TRUE)

\* consume(): the three statements in order; a panic of the closure unwinds
\* out of the first one, before anything is stored.
Machine_consume(m, input) ==
    IF ~CanBorrow(m)
    THEN Outcome(m, BorrowPanic, FALSE)
    ELSE LET new_state == Apply(m.transition, m.current_state, input)
         IN  IF new_state = Unreachable
             THEN Outcome(m, Unreachable, TRUE)
             ELSE IF ~CanBorrowMut(m)
                  THEN Outcome(m, BorrowPanic, TRUE)
                  ELSE LET stored == [m EXCEPT !.current_state =
                                                   StateWrapper_set(@, new_state)]
                       IN  Outcome(stored, Machine_current_state(stored).ret, TRUE)

\* ------------------------------------------------------------------ state

VARIABLES
    pc,        \* "builder": build() not called yet; "built"; "failed"
    builder,   \* the StateMachineBuilder (after build(): the value it consumed)
    built,     \* the Result build() returned
    machine,   \* the BasicStateMachine
    last,      \* the last completed call on the machine, and the machine before it
    th,        \* SpecConc, SpecShared: each caller's position in its call and its locals
    calls,     \* SpecBuilder: the setter calls made on the builder, in order
    fleet,     \* SpecFleet: the machines built from separate builders, and the last call
    commit     \* the value the most recent commit stored (history of Spec)

vars == <<pc, builder, built, machine, last, th, calls, fleet, commit>>

NoCall ==
    [op |-> "none", arg |-> None, ret |-> None, called |-> FALSE,
     before |-> NoMachine]

Call(op, arg, out, before) ==
    [op |-> op, arg |-> arg, ret |-> out.ret, called |-> out.called,
     before |-> before]

Init ==
    /\ pc = "builder"
    /\ builder = Builder_start
    /\ built = Err(MissingField(None))
    /\ machine = NoMachine
    /\ last = NoCall
    /\ th = <<>>
    /\ calls = <<>>
    /\ fleet = <<>>
    /\ commit = None

\* ---------------------------------------------------------------- builder

SetInitialState ==
    /\ pc = "builder"
    /\ \E state \in Stations : builder' = Builder_initial_state(builder, state)
    /\ UNCHANGED <<pc, built, machine, last, th, calls, fleet, commit>>

SetCurrentState ==
    /\ pc = "builder"
    /\ \E state \in Stations : builder' = Builder_current_state(builder, state)
    /\ UNCHANGED <<pc, built, machine, last, th, calls, fleet, commit>>

SetTransition ==
    /\ pc = "builder"
    /\ \E next \in Transitions : builder' = Builder_transition(builder, next)
    /\ UNCHANGED <<pc, built, machine, last, th, calls, fleet, commit>>

Build ==
    /\ pc = "builder"
    /\ built' = Builder_build(builder)
    /\ machine' = built'.machine
    /\ pc' = IF built'.ok THEN "built" ELSE "failed"
    /\ commit' = IF ~built'.ok THEN None
                  ELSE IF builder.current_state # None THEN builder.current_state
                  ELSE builder.initial_state
    /\ UNCHANGED <<builder, last, th, calls, fleet>>

\* ---------------------------------------------------------------- machine

\* The value a call commits, by the contract of the trait: set commits its
\* argument, reset the initial state, consume the closure's result on the
\* value committed last; a call that panics, peek and current_state commit
\* nothing.
Committed(op, arg, out) ==
    CASE op = "set" /\ out.ret = Unit -> arg
      [] op = "reset" /\ out.ret \in Stations -> builder.initial_state
      [] op = "consume" /\ out.ret \in Stations -> Apply(builder.transition, commit, arg)
      [] OTHER -> commit

Finish(op, arg, out) ==
    /\ machine' = out.machine
    /\ last' = Call(op, arg, out, machine)
    /\ commit' = Committed(op, arg, out)
    /\ UNCHANGED <<pc, builder, built, th, calls, fleet>>

CurrentState ==
    /\ pc = "built"
    /\ Finish("current_state", None, Machine_current_state(machine))

Consume ==
    /\ pc = "built"
    /\ \E input \in Train : Finish("consume", input, Machine_consume(machine, input))

Peek ==
    /\ pc = "built"
    /\ \E input \in Train : Finish("peek", input, Machine_peek(machine, input))

Reset ==
    /\ pc = "built"
    /\ Finish("reset", None, Machine_reset(machine))

Set ==
    /\ pc = "built"
    /\ \E new_state \in Stations : Finish("set", new_state, Machine_set(machine, new_state))

Next ==
    \/ SetInitialState
    \/ SetCurrentState
    \/ SetTransition
    \/ Build
    \/ CurrentState
    \/ Consume
    \/ Peek
    \/ Reset
    \/ Set

Spec == Init /\ [][Next]_vars

\* ------------------------------------------- builder calls, with their log

\* The number of setter calls made on one builder before build().
MaxSetterCalls == 4

\* A setter call is logged as <<setter, value>>.
LogInitialState ==
    /\ pc = "builder"
    /\ Len(calls) < MaxSetterCalls
    /\ \E state \in Stations :
          /\ builder' = Builder_initial_state(builder, state)
          /\ calls' = Append(calls, <<"initial_state", state>>)
    /\ UNCHANGED <<pc, built, machine, last, th, fleet, commit>>

LogCurrentState ==
    /\ pc = "builder"
    /\ Len(calls) < MaxSetterCalls
    /\ \E state \in Stations :
          /\ builder' = Builder_current_state(builder, state)
          /\ calls' = Append(calls, <<"current_state", state>>)
    /\ UNCHANGED <<pc, built, machine, last, th, fleet, commit>>

LogTransition ==
    /\ pc = "builder"
    /\ Len(calls) < MaxSetterCalls
    /\ \E next \in Transitions :
          /\ builder' = Builder_transition(builder, next)
          /\ calls' = Append(calls, <<"transition", next>>)
    /\ UNCHANGED <<pc, built, machine, last, th, fleet, commit>>

NextBuilder ==
    \/ LogInitialState
    \/ LogCurrentState
    \/ LogTransition
    \/ Build

SpecBuilder == Init /\ [][NextBuilder]_vars

\* ------------------------------------------------------ several machines

\* The number of machines, each built from a builder of its own.
NumMachines == 2

Machines == 1..NumMachines

\* The stations the builders and set() calls of SpecFleet are given.
FleetStations == {"Shibuya", "Sangendyaya", "Yoga"}

\* Every complete builder over FleetStations.
FleetBuilders ==
    [initial_state : FleetStations,
     current_state : FleetStations \cup {None},
     transition : Transitions]

\* Mutant of FleetStore: the current state lives in one cell all machines share.
FleetStore_shared(ms, i, m) ==
    [j \in DOMAIN ms |->
        IF j = i THEN m ELSE [ms[j] EXCEPT !.current_state = m.current_state]]

\* A call through &self writes the fields of that BasicStateMachine value:
\* each instance owns its initial_state and its RefCell.
FleetStore(ms, i, m) == [ms EXCEPT ![i] = m]

InitFleet ==
    /\ pc = "built"
    /\ builder = Builder_start
    /\ built = Err(MissingField(None))
    /\ machine = NoMachine
    /\ last = NoCall
    /\ th = <<>>
    /\ calls = <<>>
    /\ commit = None
    /\ \E bs \in [Machines -> FleetBuilders] :
          fleet = [machines |-> [i \in Machines |-> Builder_build(bs[i]).machine],
                   on |-> 0, op |-> "none"]

\* Machine i's call returns: its record is replaced, the call is noted.
FleetFinish(i, op, out) ==
    /\ fleet' = [machines |-> FleetStore(fleet.machines, i, out.machine),
                 on |-> i, op |-> op]
    /\ UNCHANGED <<pc, builder, built, machine, last, th, calls, commit>>

FleetCurrentState(i) ==
    FleetFinish(i, "current_state", Machine_current_state(fleet.machines[i]))

FleetConsume(i) ==
    \E input \in Train :
        FleetFinish(i, "consume", Machine_consume(fleet.machines[i], input))

FleetPeek(i) ==
    \E input \in Train :
        FleetFinish(i, "peek", Machine_peek(fleet.machines[i], input))

FleetReset(i) == FleetFinish(i, "reset", Machine_reset(fleet.machines[i]))

FleetSet(i) ==
    \E new_state \in FleetStations :
        FleetFinish(i, "set", Machine_set(fleet.machines[i], new_state))

NextFleet ==
    \E i \in Machines :
        \/ FleetCurrentState(i)
        \/ FleetConsume(i)
        \/ FleetPeek(i)
        \/ FleetReset(i)
        \/ FleetSet(i)

SpecFleet == InitFleet /\ [][NextFleet]_vars

\* ------------------------------------------------- interleaved consume()

\* The number of callers that share the machine.
NumCallers == 2

Callers == 1..NumCallers

\* A caller that has not called consume() yet.
Idle == [pc |-> "idle", input |-> None, new_state |-> None, ret |-> None]

\* A machine as build() returns it, for every complete configuration.
InitConc ==
    /\ pc = "built"
    /\ builder \in [initial_state : Stations,
                    current_state : Stations \cup {None},
                    transition : Transitions]
    /\ built = Builder_build(builder)
    /\ machine = built.machine
    /\ last = NoCall
    /\ th = [c \in Callers |-> Idle]
    /\ calls = <<>>
    /\ fleet = <<>>
    /\ commit = None

\* consume(), first statement: self.current_state.borrow() hands the closure
\* a reference to the current state.
ConsumeBorrow(c) ==
    /\ th[c].pc = "idle"
    /\ \E input \in Train :
          IF CanBorrow(machine)
          THEN /\ machine' = [machine EXCEPT !.borrow = @ + 1]
               /\ th' = [th EXCEPT ![c].pc = "rule", ![c].input = input]
          ELSE /\ machine' = machine
               /\ th' = [th EXCEPT ![c].pc = "panicked", ![c].input = input,
                                   ![c].ret = BorrowPanic]
    /\ UNCHANGED <<pc, builder, built, last, calls, fleet, commit>>

\* consume(), first statement: the closure returns (or panics) and the
\* shared borrow is dropped at the end of the statement.
ConsumeRule(c) ==
    /\ th[c].pc = "rule"
    /\ LET new_state == Apply(machine.transition, machine.current_state, th[c].input)
       IN  /\ machine' = [machine EXCEPT !.borrow = @ - 1]
           /\ th' = IF new_state = Unreachable
                    THEN [th EXCEPT ![c].pc = "panicked", ![c].ret = Unreachable]
                    ELSE [th EXCEPT ![c].pc = "store", ![c].new_state = new_state]
    /\ UNCHANGED <<pc, builder, built, last, calls, fleet, commit>>

\* consume(), second statement: self.current_state.borrow_mut().set(new_state)
ConsumeStore(c) ==
    /\ th[c].pc = "store"
    /\ IF CanBorrowMut(machine)
       THEN /\ machine' = [machine EXCEPT !.current_state =
                                              StateWrapper_set(@, th[c].new_state)]
            /\ th' = [th EXCEPT ![c].pc = "reread"]
       ELSE /\ machine' = machine
            /\ th' = [th EXCEPT ![c].pc = "panicked", ![c].ret = BorrowPanic]
    /\ UNCHANGED <<pc, builder, built, last, calls, fleet, commit>>

\* consume(), third statement: self.current_state() is the value returned.
ConsumeReturn(c) ==
    /\ th[c].pc = "reread"
    /\ th' = [th EXCEPT ![c].pc = "done",
                        ![c].ret = Machine_current_state(machine).ret]
    /\ UNCHANGED <<pc, builder, built, machine, last, calls, fleet, commit>>

NextConc ==
    \E c \in Callers :
        \/ ConsumeBorrow(c)
        \/ ConsumeRule(c)
        \/ ConsumeStore(c)
        \/ ConsumeReturn(c)

SpecConc == InitConc /\ [][NextConc]_vars


\* ------------------------------------ all operations on a shared machine

\* SpecShared: NumCallers callers each make one call on one machine. A call
\* that is entered while another has not returned starts inside the other's
\* closure or between two of its statements. Every RefCell access is a step.

\* A caller that has made no call yet.
IdleCaller ==
    [pc |-> "idle", op |-> None, input |-> None, new_state |-> None, ret |-> None]

\* The machine of SpecShared: built from any complete builder over FleetStations.
InitShared ==
    /\ pc = "built"
    /\ builder \in FleetBuilders
    /\ built = Builder_build(builder)
    /\ machine = built.machine
    /\ last = NoCall
    /\ th = [c \in Callers |-> IdleCaller]
    /\ calls = <<>>
    /\ fleet = <<>>
    /\ commit = None

\* The caller's call ends with a panic.
Panicked(c, op, why) ==
    /\ th' = [th EXCEPT ![c].pc = "panicked", ![c].op = op, ![c].ret = why]
    /\ machine' = machine

\* consume()/peek(): self.current_state.borrow(), then the closure is entered.
EnterRule(c, op, input) ==
    IF CanBorrow(machine)
    THEN /\ machine' = [machine EXCEPT !.borrow = @ + 1]
         /\ th' = [th EXCEPT ![c].pc = "rule", ![c].op = op, ![c].input = input]
    ELSE Panicked(c, op, BorrowPanic)

\* Mutant of ShConsumeCall: consume() takes the mutable borrow before it calls
\* the closure.
ShConsumeCall_exclusive(c) ==
    /\ th[c].pc = "idle"
    /\ \E input \in Train :
          IF CanBorrowMut(machine)
          THEN /\ machine' = [machine EXCEPT !.borrow = -1]
               /\ th' = [th EXCEPT ![c].pc = "rule", ![c].op = "consume",
                                   ![c].input = input]
          ELSE Panicked(c, "consume", BorrowPanic)
    /\ UNCHANGED <<pc, builder, built, last, calls, fleet, commit>>

\* consume(), first statement, up to the call of the closure.
ShConsumeCall(c) ==
    /\ th[c].pc = "idle"
    /\ \E input \in Train : EnterRule(c, "consume", input)
    /\ UNCHANGED <<pc, builder, built, last, calls, fleet, commit>>

\* peek(), up to the call of the closure.
ShPeekCall(c) ==
    /\ th[c].pc = "idle"
    /\ \E input \in Train : EnterRule(c, "peek", input)
    /\ UNCHANGED <<pc, builder, built, last, calls, fleet, commit>>

\* The closure returns or panics; the shared borrow is dropped. peek()
\* returns the value, consume() keeps it in new_state.
ShRuleReturn(c) ==
    /\ th[c].pc = "rule"
    /\ LET new_state == Apply(machine.transition, machine.current_state, th[c].input)
       IN  /\ machine' = [machine EXCEPT !.borrow = @ - 1]
           /\ th' = IF new_state = Unreachable
                    THEN [th EXCEPT ![c].pc = "panicked", ![c].ret = Unreachable]
                    ELSE IF th[c].op = "peek"
                    THEN [th EXCEPT ![c].pc = "done", ![c].ret = new_state]
                    ELSE [th EXCEPT ![c].pc = "store", ![c].new_state = new_state]
    /\ UNCHANGED <<pc, builder, built, last, calls, fleet, commit>>

\* self.current_state.borrow_mut() of consume(), reset() and set().
EnterWrite(c, op, new_state) ==
    IF CanBorrowMut(machine)
    THEN /\ machine' = [machine EXCEPT !.borrow = -1]
         /\ th' = [th EXCEPT ![c].pc = "writing", ![c].op = op,
                             ![c].new_state = new_state]
    ELSE Panicked(c, op, BorrowPanic)

\* consume(), second statement: borrow_mut().
ShConsumeBorrowMut(c) ==
    /\ th[c].pc = "store"
    /\ EnterWrite(c, "consume", th[c].new_state)
    /\ UNCHANGED <<pc, builder, built, last, calls, fleet, commit>>

\* reset(): borrow_mut(), then self.initial_state.clone() as the argument.
ShResetCall(c) ==
    /\ th[c].pc = "idle"
    /\ EnterWrite(c, "reset", machine.initial_state)
    /\ UNCHANGED <<pc, builder, built, last, calls, fleet, commit>>

\* set(): borrow_mut().
ShSetCall(c) ==
    /\ th[c].pc = "idle"
    /\ \E new_state \in FleetStations : EnterWrite(c, "set", new_state)
    /\ UNCHANGED <<pc, builder, built, last, calls, fleet, commit>>

\* StateWrapper::set under the mutable borrow, which is then dropped; set()
\* returns, consume() and reset() go on to self.current_state().
ShWrite(c) ==
    /\ th[c].pc = "writing"
    /\ machine' = [machine EXCEPT
                      !.current_state = StateWrapper_set(@, th[c].new_state),
                      !.borrow = 0]
    /\ th' = IF th[c].op = "set"
             THEN [th EXCEPT ![c].pc = "done", ![c].ret = Unit]
             ELSE [th EXCEPT ![c].pc = "reread"]
    /\ UNCHANGED <<pc, builder, built, last, calls, fleet, commit>>

\* self.current_state(): borrow().get(), the value returned.
ReadCell(c, op) ==
    IF CanBorrow(machine)
    THEN /\ th' = [th EXCEPT ![c].pc = "done", ![c].op = op,
                             ![c].ret = Machine_current_state(machine).ret]
         /\ machine' = machine
    ELSE Panicked(c, op, BorrowPanic)

\* The last statement of consume() and reset().
ShReread(c) ==
    /\ th[c].pc = "reread"
    /\ ReadCell(c, th[c].op)
    /\ UNCHANGED <<pc, builder, built, last, calls, fleet, commit>>

\* current_state()
ShCurrentStateCall(c) ==
    /\ th[c].pc = "idle"
    /\ ReadCell(c, "current_state")
    /\ UNCHANGED <<pc, builder, built, last, calls, fleet, commit>>

NextShared ==
    \E c \in Callers :
        \/ ShConsumeCall(c)
        \/ ShPeekCall(c)
        \/ ShRuleReturn(c)
        \/ ShConsumeBorrowMut(c)
        \/ ShResetCall(c)
        \/ ShSetCall(c)
        \/ ShWrite(c)
        \/ ShReread(c)
        \/ ShCurrentStateCall(c)

SpecShared == InitShared /\ [][NextShared]_vars
\* ----------------------------------------------------------------- claims

\* The starting current state build() is asked for: the override, else the
\* initial state.
Requested(b) == IF b.current_state # None THEN b.current_state ELSE b.initial_state

\* C1: a machine returned by a successful build() has current_state() equal
\* to the override when current_state(..) was called on the builder and to the
\* initial state otherwise, and its initial_state is the value given to
\* initial_state(..); a current_state() call on the fresh machine returns it.
C1_BuiltStartsAtRequested ==
    /\ built.ok =>
          /\ Machine_current_state(built.machine).ret = Requested(builder)
          /\ built.machine.initial_state = builder.initial_state
    /\ (last.op = "current_state" /\ last.before = built.machine) =>
          last.ret = Requested(builder)

C1_Witness ==
    /\ pc = "built"
    /\ builder.current_state # None
    /\ builder.current_state # builder.initial_state
    /\ last.op = "current_state"
    /\ last.before = built.machine
    /\ last.ret = builder.current_state

\* C2: consume(i) called in a current state s on which the rule is defined
\* leaves the current state equal to rule(s, i), and returns the value an
\* immediately following current_state() returns.
C2_ConsumeCommitsRule ==
    (last.op = "consume"
        /\ Defined(last.before.transition, last.before.current_state, last.arg)) =>
       /\ machine.current_state =
              Apply(last.before.transition, last.before.current_state, last.arg)
       /\ last.ret = machine.current_state
       /\ Machine_current_state(machine).ret = last.ret

C2_Witness ==
    /\ last.op = "consume"
    /\ last.arg = "Express"
    /\ last.before.current_state = "Sangendyaya"
    /\ last.before.initial_state = "Shibuya"
    /\ last.ret = "FutakoTamagawa"
    /\ machine.current_state = "FutakoTamagawa"

\* C3: peek(i) returns rule(current state, i) and leaves the machine as it
\* was: current_state() before and after it agree, initial_state too.
C3_PeekLeavesMachine ==
    last.op = "peek" =>
       /\ last.ret = Apply(last.before.transition, last.before.current_state, last.arg)
       /\ machine = last.before
       /\ Machine_current_state(machine).ret = Machine_current_state(last.before).ret
       /\ machine.initial_state = last.before.initial_state

C3_Witness ==
    /\ last.op = "peek"
    /\ last.arg = "Express"
    /\ last.ret = "FutakoTamagawa"
    /\ machine.current_state = "Sangendyaya"

\* C4: after any sequence of calls, reset() returns the initial state given
\* to the builder and leaves the current state equal to it, also when the
\* machine was built with an override different from the initial state.
C4_ResetReturnsInitial ==
    last.op = "reset" =>
       /\ last.ret = builder.initial_state
       /\ machine.current_state = builder.initial_state
       /\ Machine_current_state(machine).ret = builder.initial_state

C4_Witness ==
    /\ last.op = "reset"
    /\ builder.current_state # None
    /\ builder.current_state # builder.initial_state
    /\ last.before.current_state # builder.initial_state
    /\ last.ret = builder.initial_state

\* C5: set(x) followed immediately by current_state() returns exactly x, for
\* every x, also one the rule is undefined from; set never invokes the rule;
\* a consume(i) that follows set(x) applies the rule to x.
C5_SetStoresExactly ==
    [][ /\ last'.op = "set" =>
              /\ machine'.current_state = last'.arg
              /\ Machine_current_state(machine').ret = last'.arg
              /\ ~last'.called
              /\ last'.ret = Unit
        /\ (last.op = "set" /\ last'.op = "consume") =>
              last'.ret = Apply(machine.transition, last.arg, last'.arg)
      ]_vars

C5_Witness ==
    /\ last.op = "set"
    /\ last.arg = "Yoga"
    /\ \A input \in Train : ~Defined(machine.transition, "Yoga", input)
    /\ last.before.current_state = "Shibuya"
    /\ Machine_current_state(machine).ret = "Yoga"

\* C6: build() fails with MissingField naming "initial_state" when only
\* transition was supplied, with MissingField naming "transition" when only
\* initial_state was supplied, and succeeds when both were supplied; whether
\* current_state(..) was called does not change the outcome.
C6_BuildOutcome ==
    pc # "builder" =>
       /\ (builder.initial_state = None /\ builder.transition # None) =>
             (~built.ok /\ built.err = MissingField("initial_state"))
       /\ (builder.initial_state # None /\ builder.transition = None) =>
             (~built.ok /\ built.err = MissingField("transition"))
       /\ (builder.initial_state # None /\ builder.transition # None) =>
             (built.ok /\ pc = "built")

C6_Witness ==
    /\ pc = "failed"
    /\ builder.initial_state # None
    /\ builder.transition = None
    /\ builder.current_state # None
    /\ built = Err(MissingField("transition"))

\* The first unset required field, in the order initial_state, transition.
FirstUnset(b) ==
    IF b.initial_state = None THEN "initial_state"
    ELSE IF b.transition = None THEN "transition" ELSE None

\* C7: when neither initial_state nor transition was set, build() fails with
\* MissingField naming "initial_state": the reported field is always the first
\* unset one in the order initial_state, transition.
C7_InitialStateFirst ==
    /\ (pc # "builder" /\ builder.initial_state = None /\ builder.transition = None) =>
          (~built.ok /\ built.err = MissingField("initial_state"))
    /\ pc = "failed" => built.err.field = FirstUnset(builder)

C7_Witness ==
    /\ pc = "failed"
    /\ builder.initial_state = None
    /\ builder.transition = None
    /\ builder.current_state # None
    /\ built.err.field = "initial_state"

\* C9: reset is idempotent: a reset() that follows a reset() returns the
\* initial state again and leaves the machine as the first one left it.
C9_ResetIdempotent ==
    last.op = "reset" =>
       LET again == Machine_reset(machine)
       IN  /\ last.ret = last.before.initial_state
           /\ again.ret = last.ret
           /\ again.machine = machine

C9_Witness ==
    /\ last.op = "reset"
    /\ last.before.current_state # last.before.initial_state
    /\ Machine_reset(machine).ret = machine.initial_state
    /\ machine.current_state = machine.initial_state

\* C10: for every reachable current state s and every input i on which the
\* rule is defined, peek(i) returns the value consume(i) from s returns and
\* commits.
C10_PeekAgreesWithConsume ==
    pc = "built" =>
       \A input \in Train :
          Defined(machine.transition, machine.current_state, input) =>
             LET peeked == Machine_peek(machine, input)
                 consumed == Machine_consume(machine, input)
             IN  /\ peeked.ret = consumed.ret
                 /\ consumed.machine.current_state = peeked.ret

C10_Witness ==
    /\ last.op = "peek"
    /\ last.ret \in Stations
    /\ machine.current_state # machine.initial_state
    /\ Machine_consume(machine, last.arg).ret = last.ret
    /\ Machine_consume(machine, last.arg).machine.current_state = last.ret

\* The states that applying the inputs of the callers in `remaining` one after
\* the other, in some order, leads to from `state`.
RECURSIVE Sequentially(_, _)
Sequentially(state, remaining) ==
    IF remaining = {}
    THEN {state}
    ELSE UNION { IF Defined(machine.transition, state, th[c].input)
                 THEN Sequentially(Apply(machine.transition, state, th[c].input),
                                   remaining \ {c})
                 ELSE {} : c \in remaining }

\* Every caller's consume() has returned a state.
AllReturned == \A c \in Callers : th[c].pc = "done"

CallsOf(setter) == {i \in 1..Len(calls) : calls[i][1] = setter}

\* The value of the last call of `setter`, None when it was never called.
LastOf(setter) ==
    IF CallsOf(setter) = {} THEN None
    ELSE calls[CHOOSE i \in CallsOf(setter) : \A j \in CallsOf(setter) : j <= i][2]

\* C11: builder setters are last-write-wins: the builder holds, and the built
\* machine uses, the value of the last call of each setter; build() fails only
\* when a required setter was never called, however often the others were.
C11_LastWriteWins ==
    /\ builder.initial_state = LastOf("initial_state")
    /\ builder.current_state = LastOf("current_state")
    /\ builder.transition = LastOf("transition")
    /\ pc # "builder" =>
          /\ built.ok <=> (LastOf("initial_state") # None /\ LastOf("transition") # None)
          /\ built.ok =>
                /\ machine.initial_state = LastOf("initial_state")
                /\ machine.transition = LastOf("transition")
                /\ Machine_current_state(machine).ret =
                      IF LastOf("current_state") # None
                      THEN LastOf("current_state")
                      ELSE LastOf("initial_state")

C11_Witness ==
    /\ pc = "built"
    /\ Len(calls) = 4
    /\ calls[1][1] = "initial_state" /\ calls[3][1] = "initial_state"
    /\ calls[1][2] # calls[3][2]
    /\ calls[2][1] = "transition" /\ calls[4][1] = "transition"
    /\ calls[2][2] # calls[4][2]
    /\ machine.initial_state = calls[3][2]
    /\ machine.transition = calls[4][2]

\* C12: machines built from separate builders are independent: a call on one
\* machine leaves the current state and the initial state (the whole record)
\* of every other machine unchanged.
C12_MachinesIndependent ==
    [][\A j \in Machines :
          j # fleet'.on => fleet'.machines[j] = fleet.machines[j]]_vars

C12_Witness ==
    /\ fleet.on = 1
    /\ fleet.op = "consume"
    /\ fleet.machines[1].initial_state = fleet.machines[2].initial_state
    /\ fleet.machines[1].transition = fleet.machines[2].transition
    /\ fleet.machines[1].current_state = "FutakoTamagawa"
    /\ fleet.machines[2].current_state = "Sangendyaya"

\* The calls that may change the current state.
Mutators == {"consume", "reset", "set"}

\* C13: in every reachable state of a built machine initial_state (and the
\* rule) is the value recorded at build time, no call changes it, and the
\* current state is changed only by consume, reset and set.
C13_InitialStateFixed ==
    /\ [](pc = "built" =>
             /\ machine.initial_state = builder.initial_state
             /\ machine.initial_state = built.machine.initial_state
             /\ machine.transition = built.machine.transition)
    /\ [][pc = "built" =>
             /\ machine'.initial_state = machine.initial_state
             /\ machine'.current_state # machine.current_state =>
                   last'.op \in Mutators]_vars

C13_Witness ==
    /\ pc = "built"
    /\ last.op = "peek"
    /\ last.ret \in Stations
    /\ last.before.current_state # machine.initial_state
    /\ machine.current_state # built.machine.current_state
    /\ machine.initial_state = builder.initial_state

\* C14: current_state() returns the value stored by the most recent commit
\* on the instance (the starting state from build, or what the latest consume,
\* reset or set stored), never a value computed and not committed, and the
\* call leaves the machine as it was.
C14_QueryObservesCommit ==
    last.op = "current_state" =>
       /\ last.ret = commit
       /\ machine = last.before

C14_Witness ==
    /\ last.op = "current_state"
    /\ last.ret = "IkejiriOhashi"
    /\ commit = "IkejiriOhashi"
    /\ machine.initial_state = "Shibuya"
    /\ built.machine.current_state = "Sangendyaya"
    /\ Machine_peek(machine, "Local").ret = "Sangendyaya"

\* The callers whose call stands at one of the positions `at`.
At(positions) == {c \in Callers : th[c].pc \in positions}

C16_RuleOutsideWritePhase ==
    /\ At({"rule"}) # {} => machine.borrow >= Cardinality(At({"rule"}))
    /\ \A c \in At({"writing"}) :
          /\ machine.borrow = -1
          /\ At({"rule"}) = {}
          /\ th[c].op \in Mutators
          /\ th[c].new_state \in Stations
    /\ \A c \in Callers :
          th[c].op = "peek" => th[c].pc \in {"rule", "done", "panicked"}

C16_Witness ==
    /\ th[1].op = "peek" /\ th[1].pc = "done" /\ th[1].ret \in Stations
    /\ th[2].op = "consume" /\ th[2].pc = "writing"
    /\ th[2].new_state = th[1].ret
    /\ machine.borrow = -1

RuleRunning == At({"rule"}) # {}

\* C20: while the closure runs inside consume or peek the shared borrow is
\* held: a consume's store, a reset or a set attempted in that window panics
\* and takes no effect, the state the closure reads does not change, and a
\* current_state, a peek or a re-read attempted in that window succeeds.
C20_WindowRejectsMutation ==
    [][RuleRunning =>
          /\ machine'.current_state = machine.current_state
          /\ machine.borrow >= 1
          /\ \A d \in Callers :
                (th'[d] # th[d]
                    /\ \/ th[d].pc = "store"
                       \/ th[d].pc = "idle" /\ th'[d].op \in {"reset", "set"}) =>
                   /\ th'[d].pc = "panicked"
                   /\ th'[d].ret = BorrowPanic
                   /\ machine' = machine
          /\ \A d \in Callers :
                (th'[d] # th[d] /\ th[d].pc = "idle"
                    /\ th'[d].op \in {"current_state", "peek", "consume"}) =>
                   th'[d].pc \in {"done", "rule"}
          /\ \A d \in Callers :
                (th'[d] # th[d] /\ th[d].pc = "reread") => th'[d].pc = "done"
      ]_vars

C20_Witness ==
    /\ th[1].pc = "rule" /\ th[1].op = "consume"
    /\ th[2].pc = "panicked" /\ th[2].op = "set" /\ th[2].ret = BorrowPanic
    /\ th[2].new_state = None
    /\ machine.current_state = built.machine.current_state
    /\ machine.borrow = 1

\* C18: every call on a machine is preceded by a build() that succeeded with
\* initial_state and transition set; a build() that fails with MissingField
\* yields no machine; build() consumes the builder in both outcomes; no call
\* on a machine returns a MissingField error.
C18_NoPartialMachine ==
    /\ [](/\ last.op # "none" =>
                /\ pc = "built"
                /\ built.ok
                /\ builder.initial_state # None
                /\ builder.transition # None
                /\ last.ret \in Stations \cup {Unit, Unreachable}
          /\ pc = "built" =>
                /\ built.ok
                /\ builder.initial_state # None
                /\ builder.transition # None
                /\ machine.initial_state \in Stations
                /\ machine.current_state \in Stations
                /\ machine.transition \in Transitions
          /\ pc = "failed" =>
                /\ ~built.ok
                /\ built.err.variant = "MissingField"
                /\ built.machine = NoMachine
                /\ machine = NoMachine
                /\ last = NoCall)
    /\ [][pc # "builder" =>
             (pc' = pc /\ builder' = builder /\ built' = built)]_vars

C18_Witness ==
    /\ pc = "failed"
    /\ builder.initial_state = None
    /\ builder.current_state # None
    /\ builder.transition # None
    /\ built.err = MissingField("initial_state")
    /\ machine = NoMachine
    /\ last = NoCall

\* C19: when the closure panics for (current state, input) during consume or
\* peek the panic reaches the caller and the machine is left as it was: the
\* current state and initial state are unchanged, no borrow of the cell is
\* held, and current_state, set, reset and consume behave normally afterwards.
C19_RulePanicLeavesMachine ==
    last.op \in {"consume", "peek"} =>
       /\ last.ret = Unreachable <=>
             ~Defined(last.before.transition, last.before.current_state, last.arg)
       /\ last.ret = Unreachable =>
             /\ machine = last.before
             /\ machine.borrow = 0
             /\ Machine_current_state(machine).ret = last.before.current_state
             /\ Machine_reset(machine).ret = last.before.initial_state
             /\ \A new_state \in Stations :
                   /\ Machine_set(machine, new_state).ret = Unit
                   /\ Machine_set(machine, new_state).machine.current_state = new_state
             /\ \A input \in Train :
                   Machine_consume(machine, input).ret =
                      Apply(machine.transition, last.before.current_state, input)

C19_Witness ==
    /\ last.op = "consume"
    /\ last.ret = Unreachable
    /\ machine.current_state = "IkejiriOhashi"
    /\ last.arg = "Express"
    /\ machine.transition = "StationTransition"
    /\ Machine_consume(machine, "Local").ret = "Sangendyaya"

====
